---------------------------- MODULE Spec2Model ----------------------------
(***************************************************************************)
(* A model of the Reddit scraper server, src/server/reddit_scraper_server.py *)
(*                                                                         *)
(* The module holds these layers, each with its own specification:          *)
(*   SpecBlocked  RedditScraper._is_blocked, a pure function of a document  *)
(*   SpecCollect  the four pagination loops (scrape_user_posts,            *)
(*                scrape_user_comments, _scrape_subreddit_posts,           *)
(*                search_reddit), one collect call at a time               *)
(*   SpecFetch    _get_page_with_retry / _get_page / _check_rotation_needed *)
(*                / _rotate_session on one scraper object, call after call  *)
(*   SpecSession  the routes /scrape, /rotate and /close served by two     *)
(*                threads that share the global scraper                    *)
(*   SpecServe    the handlers of /scrape, /close and /rotate, one request *)
(*                at a time, with the responses they give                  *)
(*   SpecBackoff  the backoff waits of a _get_page_with_retry call whose   *)
(*                attempts all fail                                        *)
(*   SpecCompare  scrape_user_posts, _scrape_subreddit_posts and           *)
(*                search_reddit run on one and the same series of fetches  *)
(* A layer's actions leave the other layers' variables unchanged.          *)
(***************************************************************************)
EXTENDS Integers, Sequences, FiniteSets, TLC

VARIABLES
    \* ---- _is_blocked -------------------------------------------------
    bDoc,        \* the argument soup
    bPc,         \* "call" before the call, "done" after it
    bResult,     \* the value returned
    \* ---- the pagination loops ----------------------------------------
    cKind,       \* which of the four loops runs
    cLimit,      \* the argument limit
    cPc,         \* "start" | "loop" | "exit" | "returned" | "raised"
    posts,       \* the local list posts / comments
    url,         \* the local url: the page to fetch next
    page_count,  \* the local page_count
    cSoup,       \* the local soup (kept across iterations by the subreddit loop)
    cInitial,    \* _scrape_subreddit_posts' argument initial_soup
    cResult,     \* the list returned
    cFetches,    \* observer: calls of _get_page_with_retry made by this call
    cDocs,       \* observer: those of the calls that returned a document
    cLastNext,   \* observer: the next link of the document the latest call
                 \* returned (-1: it returned none, or no call yet)
    cFollowed,   \* observer: the latest call, if the call before it returned a
                 \* document, was made at the next link of that document
    cEndPage,    \* observer: which of the documents returned was the first
                 \* without a next link (0: none so far)
    cExpect,     \* observer: the records held by the pages handed to the loop,
                 \* in page order and document order
    cWhy,        \* observer: how the loop ended: "running" | "failed" |
                 \* "no_things" | "complete" | "bounds" | "raised_after_2" |
                 \* "raised_after_3"
    \* ---- the scraper objects and the browsing engine ------------------
    scraper,       \* the module global: 0 (None) or the RedditScraper object
    driver,        \* per object, self.driver: 0 (None) or a session handle
    request_count, \* per object, self.request_count
    live,          \* the sessions (browser processes) the engine has running
    \* ---- one thread in _get_page_with_retry ----------------------------
    fPc,         \* "idle" | "attempt" | "got" | "backoff" | "rotate" | "clear"
                 \* | "returned" | "exhausted" | "raised"
    attempt,     \* the loop variable attempt
    fSoup,       \* the local soup
    fCause,      \* observer: how the latest _get_page ended
    fConsent,    \* observer: the latest _get_page reached _accept_reddit_cookies()
    fEngine,     \* observer: what the engine did in the step just taken: the
                 \* best-effort operations that failed, how the page load
                 \* ended, how _setup_driver ended
    fCauses,     \* observer: how the failed attempts of this call ended, in order
    fOnce,       \* observer: calls of _get_page made by this call
    fSleeps,     \* observer: backoff sleeps of this call
    fRetryRot,   \* observer: calls of _rotate_session made by this call's retry path
    fThreshRot,  \* observer: calls of _rotate_session made by this call's _check_rotation_needed
    fClears,     \* observer: calls of _clear_cookies made by this call
    justRotated, \* observer: the step just taken called _rotate_session
    noteCalls,   \* observer: calls of _check_rotation_needed since the session was
                 \* fresh (-1: a manual or retry rotation has intervened)
    autoRot,     \* observer: rotations those calls triggered
    \* ---- the request threads of the Flask server ----------------------
    tPc,         \* per thread, where it is in its route handler
    tRef,        \* per thread, the object its local reddit_scraper / self names
    tObj,        \* per thread, the object RedditScraper() has just built
    tRet,        \* per thread, who called _rotate_session: "thresh" | "retry" | "route"
    tAttempt,    \* per thread, the loop variable attempt of _get_page_with_retry
    served,      \* requests accepted so far
    \* ---- the route handlers, one request at a time ---------------------
    hPc,         \* where the handler is: "idle" (no request, or answered) |
                 \* "get_scraper" | "validate" | "profile" | "posts" |
                 \* "comments" | "community" | "search"
    hRoute,      \* the route of the request: "scrape" | "close" | "rotate"
    hType,       \* /scrape: data.get('type'), or "no_body" when there is no JSON
    hField,      \* /scrape: the required field: "absent" | "blank" | "null" | "text"
    hStatus,     \* the HTTP status of the response (0: none yet)
    hError,      \* the response's error field ("none": it has none)
    hCarried,    \* the number of records the response carries
    hPosts,      \* /scrape: the local posts, as the number of its records
    hGot,        \* observer: records collected while the request was handled
    hCause,      \* observer: how the single-page step of the request ended
    hTrace,      \* observer: the steps of the request that fetched, in order
    hFetches,    \* observer: calls of _get_page_with_retry made for the request
    hBefore,     \* observer: the route and the status of the request before
    hServed,     \* requests received so far
    \* ---- the backoff waits of one _get_page_with_retry call -------------
    wAttempt,    \* the loop variable attempt
    wWaits,      \* the wait_time of each sleep so far, in order
    \* ---- three loops run on the same fetches ---------------------------
    qLimit,      \* the argument limit given to each
    qFeed,       \* what the n-th call of _get_page_with_retry returns
    qInitial,    \* _scrape_subreddit_posts' argument initial_soup
    qOut         \* per loop, the list returned and the calls made (or NotRun)

blockVars   == <<bDoc, bPc, bResult>>
collectObs  == <<cFetches, cDocs, cLastNext, cFollowed, cEndPage, cExpect, cWhy>>
collectVars == <<cKind, cLimit, cPc, posts, url, page_count, cSoup, cInitial,
                 cResult, collectObs>>

sessionVars == <<scraper, driver, request_count, live>>
fetchVars   == <<fPc, attempt, fSoup, fCause, fConsent, fEngine, fCauses, fOnce, fSleeps, fRetryRot,
                 fThreshRot, fClears, justRotated, noteCalls, autoRot>>

threadVars  == <<tPc, tRef, tObj, tRet, tAttempt, served>>

serveVars   == <<hPc, hRoute, hType, hField, hStatus, hError, hCarried, hPosts,
                 hGot, hCause, hTrace, hFetches, hBefore, hServed>>

backoffVars == <<wAttempt, wWaits>>

compareVars == <<qLimit, qFeed, qInitial, qOut>>

otherThanCollect == <<blockVars, sessionVars, fetchVars, threadVars, serveVars, backoffVars,
                      compareVars>>
otherThanBlock   == <<collectVars, sessionVars, fetchVars, threadVars, serveVars, backoffVars,
                      compareVars>>
otherThanFetch   == <<blockVars, collectVars, threadVars, serveVars, backoffVars, compareVars>>
otherThanThreads == <<blockVars, collectVars, fetchVars, serveVars, backoffVars, compareVars>>
otherThanServe   == <<blockVars, collectVars, fetchVars, threadVars, backoffVars, compareVars>>
otherThanBackoff == <<blockVars, collectVars, sessionVars, fetchVars, threadVars, serveVars,
                      compareVars>>
otherThanCompare == <<blockVars, collectVars, sessionVars, fetchVars, threadVars, serveVars,
                      backoffVars>>

Min(a, b) == IF a < b THEN a ELSE b

(***************************************************************************)
(* Documents for _is_blocked.  A soup is None or a BeautifulSoup object;   *)
(* its text is a sequence of words over a small alphabet that holds words  *)
(* of the block phrases in lower and upper case and a neutral word.        *)
(***************************************************************************)
MaxTextLen == 3

Words == {"rate", "Rate", "limit", "captcha", "CAPTCHA", "welcome"}

\* str.lower() on one word
LowerWord(w) ==
    CASE w = "Rate"    -> "rate"
      [] w = "CAPTCHA" -> "captcha"
      [] OTHER         -> w

\* str.lower() on a text
Lower(text) == [i \in 1..Len(text) |-> LowerWord(text[i])]

\* Python's `needle in haystack` on strings: a contiguous occurrence
Contains(haystack, needle) ==
    \E i \in 1..(Len(haystack) - Len(needle) + 1) :
        SubSeq(haystack, i, i + Len(needle) - 1) = needle

\* the list blocked_indicators
blocked_indicators ==
    << <<"too", "many", "requests">>,
       <<"rate", "limit">>,
       <<"access", "denied">>,
       <<"captcha">>,
       <<"you", "broke", "reddit">>,
       <<"our", "cdn", "was", "unable">>,
       <<"request", "blocked">> >>

Texts == UNION {[1..n -> Words] : n \in 0..MaxTextLen}

NoneSoup == [present |-> FALSE, text |-> <<>>]

Soups == {NoneSoup} \cup [present : {TRUE}, text : Texts]

\* Python's truth value of a soup.  None is false; a BeautifulSoup object is
\* a bs4 Tag, whose __bool__ returns True whatever it contains, so an empty
\* document is true.
Truthy(soup) == soup.present

\* soup.get_text()
get_text(soup) == soup.text

\* RedditScraper._is_blocked
is_blocked(soup) ==
    IF ~Truthy(soup)
    THEN TRUE
    ELSE LET page_text == Lower(get_text(soup))
         IN  \E k \in 1..Len(blocked_indicators) :
                 Contains(page_text, blocked_indicators[k])

InitBlocked ==
    /\ bDoc \in Soups
    /\ bPc = "call"
    /\ bResult = FALSE

CallIsBlocked ==
    /\ bPc = "call"
    /\ bResult' = is_blocked(bDoc)
    /\ bPc' = "done"
    /\ UNCHANGED bDoc
    /\ UNCHANGED otherThanBlock

(***************************************************************************)
(* The pagination loops.  A fetched page is what the loops read of it: the *)
(* elements soup.select('.thing...') finds, each either well formed or one *)
(* whose data-score / data-comments-count is no integer (int() raises and  *)
(* the record is skipped), and the href of '.next-button a' (0: no link).  *)
(* The remote site answers as it likes, so the page of a fetch is any page.*)
(***************************************************************************)
MaxLimit  == 3
MaxThings == 2
NumUrls   == 2
max_pages == 5

Kinds == {"user_posts", "user_comments", "subreddit_posts", "search"}

ThingLists == UNION {[1..n -> BOOLEAN] : n \in 0..MaxThings}

NonePage == [present |-> FALSE, things |-> <<>>, next |-> 0]

Pages == [present : {TRUE}, things : ThingLists, next : 0..NumUrls]

\* what _get_page_with_retry(url) hands to a loop: a document or None
FetchReturns == {NonePage} \cup Pages

\* `not soup` / `if soup` on what _get_page_with_retry returned
NotSoup(soup) == ~soup.present

\* the for-loop with its test `if len(posts) >= limit: break` left out
RECURSIVE ExtractThingsNoLimitTest(_, _, _, _, _)
ExtractThingsNoLimitTest(acc, things, i, limit, pageNo) ==
    IF i > Len(things) THEN acc
    ELSE IF things[i]
         THEN ExtractThingsNoLimitTest(Append(acc, <<pageNo, i>>), things, i + 1, limit, pageNo)
         ELSE ExtractThingsNoLimitTest(acc, things, i + 1, limit, pageNo)

\* the for-loop in a loop body that starts with posts = []: every page's
\* records replace those accumulated so far
RECURSIVE ExtractThingsResetsList(_, _, _, _, _)
ExtractThingsResetsList(acc, things, i, limit, pageNo) ==
    LET a == IF i = 1 THEN <<>> ELSE acc
    IN  IF i > Len(things) THEN a
        ELSE IF Len(a) >= limit THEN a
        ELSE IF things[i]
             THEN ExtractThingsResetsList(Append(a, <<pageNo, i>>), things, i + 1, limit, pageNo)
             ELSE ExtractThingsResetsList(a, things, i + 1, limit, pageNo)

\* the for-loop with posts.insert(0, post) for posts.append(post)
RECURSIVE ExtractThingsPrepend(_, _, _, _, _)
ExtractThingsPrepend(acc, things, i, limit, pageNo) ==
    IF i > Len(things) THEN acc
    ELSE IF Len(acc) >= limit THEN acc
    ELSE IF things[i]
         THEN ExtractThingsPrepend(<<<<pageNo, i>>>> \o acc, things, i + 1, limit, pageNo)
         ELSE ExtractThingsPrepend(acc, things, i + 1, limit, pageNo)

\* the for-loop over things, written alike in the four loops: stop at the
\* limit, append a record per well-formed thing, skip a thing that raises.
\* A record is <<number of the fetch that brought its page, index in the page>>.
RECURSIVE ExtractThings(_, _, _, _, _)
ExtractThings(acc, things, i, limit, pageNo) ==
    IF i > Len(things) THEN acc
    ELSE IF Len(acc) >= limit THEN acc
    ELSE IF things[i]
         THEN ExtractThings(Append(acc, <<pageNo, i>>), things, i + 1, limit, pageNo)
         ELSE ExtractThings(acc, things, i + 1, limit, pageNo)

\* posts[:limit] for limit >= 0
Truncate(list, limit) == SubSeq(list, 1, Min(limit, Len(list)))

InitCollect ==
    /\ cKind \in Kinds
    /\ cLimit \in 0..MaxLimit
    /\ cPc = "start"
    /\ posts = <<>>
    /\ url = 0
    /\ page_count = 0
    /\ cSoup = NonePage
    /\ cInitial \in (IF cKind = "subreddit_posts" THEN Pages ELSE {NonePage})
    /\ cResult = <<>>
    /\ cFetches = 0
    /\ cDocs = 0
    /\ cLastNext = -1
    /\ cFollowed = TRUE
    /\ cEndPage = 0
    /\ cExpect = <<>>
    /\ cWhy = "running"

\* the records a page holds: one per well-formed thing, in document order
WellFormed(things, pageNo) ==
    LET idx    == {i \in 1..Len(things) : things[i]}
        nth(k) == CHOOSE i \in idx : Cardinality({j \in idx : j < i}) = k - 1
    IN  [k \in 1..Cardinality(idx) |-> <<pageNo, nth(k)>>]

\* the observers count up to MaxCounted, which no call of a loop reaches
MaxCounted == 8

Counted(n) == IF n < MaxCounted THEN n + 1 ELSE n

\* a loop that follows the next link without counting the page
PageCountStays(count) == count

\* page_count += 1
IncrPageCount(count) == count + 1

\* the observers' update at a call of _get_page_with_retry(u)
NoteFetch(u) ==
    /\ cFetches' = Counted(cFetches)
    /\ cFollowed' = (cLastNext = -1 \/ u = cLastNext)

\* the observers' update when that call returns soup, the page numbered pageNo
NoteReturn(soup, pageNo) ==
    /\ cDocs' = IF NotSoup(soup) THEN cDocs ELSE Counted(cDocs)
    /\ cLastNext' = IF NotSoup(soup) THEN -1 ELSE soup.next
    /\ cEndPage' = IF ~NotSoup(soup) /\ soup.next = 0 /\ cEndPage = 0
                   THEN cDocs + 1 ELSE cEndPage
    /\ cExpect' = IF NotSoup(soup) THEN cExpect
                  ELSE cExpect \o WellFormed(soup.things, pageNo)

\* how _get_page_with_retry can raise: its _rotate_session() raises after the
\* second failed attempt, or after the third
RaiseOutcomes == {"raised_after_2", "raised_after_3"}

\* the observers' update when that call raises
NoteRaise(why) ==
    /\ cWhy' = why
    /\ cLastNext' = -1
    /\ UNCHANGED <<cDocs, cEndPage, cExpect>>


\* the statements before a loop of scrape_user_posts, scrape_user_comments
\* and search_reddit: posts = [], url = the start url, page_count = 0
StartPaged ==
    /\ cPc = "start"
    /\ cKind \in {"user_posts", "user_comments", "search"}
    /\ posts' = <<>>
    /\ url' = 1
    /\ page_count' = 0
    /\ cPc' = "loop"
    /\ UNCHANGED <<cKind, cLimit, cSoup, cInitial, cResult, collectObs>>
    /\ UNCHANGED otherThanCollect

\* one iteration of the while loop of scrape_user_posts
UserPostsIter ==
    /\ cKind = "user_posts"
    /\ cPc = "loop"
    /\ Len(posts) < cLimit /\ page_count < max_pages
    /\ NoteFetch(url)
    /\ \/ \* _get_page_with_retry raises
          \E why \in RaiseOutcomes :
            /\ cPc' = "raised"
            /\ NoteRaise(why)
            /\ UNCHANGED <<posts, url, page_count>>
       \/ \E soup \in FetchReturns :
            /\ NoteReturn(soup, page_count + 1)
            /\ IF NotSoup(soup)
               THEN /\ cPc' = "exit"
                    /\ cWhy' = "failed"
                    /\ UNCHANGED <<posts, url, page_count>>
               ELSE IF soup.things = <<>>
               THEN /\ cPc' = "exit"
                    /\ cWhy' = "no_things"
                    /\ UNCHANGED <<posts, url, page_count>>
               ELSE /\ posts' = ExtractThings(posts, soup.things, 1, cLimit, page_count + 1)
                    /\ IF soup.next # 0
                       THEN /\ url' = soup.next
                            /\ page_count' = IncrPageCount(page_count)
                            /\ cPc' = "loop"
                            /\ UNCHANGED cWhy
                       ELSE /\ cPc' = "exit"
                            /\ cWhy' = "complete"
                            /\ UNCHANGED <<url, page_count>>
    /\ UNCHANGED <<cKind, cLimit, cSoup, cInitial, cResult>>
    /\ UNCHANGED otherThanCollect

\* the end of scrape_user_posts: return posts[:limit]
UserPostsReturn ==
    /\ cKind = "user_posts"
    /\ \/ cPc = "exit"
       \/ cPc = "loop" /\ ~(Len(posts) < cLimit /\ page_count < max_pages)
    /\ cResult' = Truncate(posts, cLimit)
    /\ cPc' = "returned"
    /\ cWhy' = IF cPc = "loop" THEN "bounds" ELSE cWhy
    /\ UNCHANGED <<cKind, cLimit, posts, url, page_count, cSoup, cInitial>>
    /\ UNCHANGED <<cFetches, cDocs, cLastNext, cFollowed, cEndPage, cExpect>>
    /\ UNCHANGED otherThanCollect

\* one iteration of the while loop of scrape_user_comments
UserCommentsIter ==
    /\ cKind = "user_comments"
    /\ cPc = "loop"
    /\ Len(posts) < cLimit /\ page_count < max_pages
    /\ NoteFetch(url)
    /\ \/ \E why \in RaiseOutcomes :
            /\ cPc' = "raised"
            /\ NoteRaise(why)
            /\ UNCHANGED <<posts, url, page_count>>
       \/ \E soup \in FetchReturns :
            /\ NoteReturn(soup, page_count + 1)
            /\ IF NotSoup(soup)
               THEN /\ cPc' = "exit"
                    /\ cWhy' = "failed"
                    /\ UNCHANGED <<posts, url, page_count>>
               ELSE IF soup.things = <<>>
               THEN /\ cPc' = "exit"
                    /\ cWhy' = "no_things"
                    /\ UNCHANGED <<posts, url, page_count>>
               ELSE /\ posts' = ExtractThings(posts, soup.things, 1, cLimit, page_count + 1)
                    /\ IF soup.next # 0
                       THEN /\ url' = soup.next
                            /\ page_count' = IncrPageCount(page_count)
                            /\ cPc' = "loop"
                            /\ UNCHANGED cWhy
                       ELSE /\ cPc' = "exit"
                            /\ cWhy' = "complete"
                            /\ UNCHANGED <<url, page_count>>
    /\ UNCHANGED <<cKind, cLimit, cSoup, cInitial, cResult>>
    /\ UNCHANGED otherThanCollect

\* the end of scrape_user_comments: return comments[:limit]
UserCommentsReturn ==
    /\ cKind = "user_comments"
    /\ \/ cPc = "exit"
       \/ cPc = "loop" /\ ~(Len(posts) < cLimit /\ page_count < max_pages)
    /\ cResult' = Truncate(posts, cLimit)
    /\ cPc' = "returned"
    /\ cWhy' = IF cPc = "loop" THEN "bounds" ELSE cWhy
    /\ UNCHANGED <<cKind, cLimit, posts, url, page_count, cSoup, cInitial>>
    /\ UNCHANGED <<cFetches, cDocs, cLastNext, cFollowed, cEndPage, cExpect>>
    /\ UNCHANGED otherThanCollect

\* one iteration of the while loop of search_reddit
SearchIter ==
    /\ cKind = "search"
    /\ cPc = "loop"
    /\ Len(posts) < cLimit /\ page_count < max_pages
    /\ NoteFetch(url)
    /\ \/ \E why \in RaiseOutcomes :
            /\ cPc' = "raised"
            /\ NoteRaise(why)
            /\ UNCHANGED <<posts, url, page_count>>
       \/ \E soup \in FetchReturns :
            /\ NoteReturn(soup, page_count + 1)
            /\ IF NotSoup(soup)
               THEN /\ cPc' = "exit"
                    /\ cWhy' = "failed"
                    /\ UNCHANGED <<posts, url, page_count>>
               ELSE IF soup.things = <<>>
               THEN /\ cPc' = "exit"
                    /\ cWhy' = "no_things"
                    /\ UNCHANGED <<posts, url, page_count>>
               ELSE /\ posts' = ExtractThings(posts, soup.things, 1, cLimit, page_count + 1)
                    /\ IF soup.next # 0
                       THEN /\ url' = soup.next
                            /\ page_count' = IncrPageCount(page_count)
                            /\ cPc' = "loop"
                            /\ UNCHANGED cWhy
                       ELSE /\ cPc' = "exit"
                            /\ cWhy' = "complete"
                            /\ UNCHANGED <<url, page_count>>
    /\ UNCHANGED <<cKind, cLimit, cSoup, cInitial, cResult>>
    /\ UNCHANGED otherThanCollect

\* the end of search_reddit: return {'posts': posts, ...}, not truncated
SearchReturn ==
    /\ cKind = "search"
    /\ \/ cPc = "exit"
       \/ cPc = "loop" /\ ~(Len(posts) < cLimit /\ page_count < max_pages)
    /\ cResult' = posts
    /\ cPc' = "returned"
    /\ cWhy' = IF cPc = "loop" THEN "bounds" ELSE cWhy
    /\ UNCHANGED <<cKind, cLimit, posts, url, page_count, cSoup, cInitial>>
    /\ UNCHANGED <<cFetches, cDocs, cLastNext, cFollowed, cEndPage, cExpect>>
    /\ UNCHANGED otherThanCollect

\* the statements before the loop of _scrape_subreddit_posts: the page /new
\* is fetched, and initial_soup stands in for it when the fetch fails.
\* Nothing reads initial_soup after them, and the model drops it here.
SubredditStart ==
    /\ cKind = "subreddit_posts"
    /\ cPc = "start"
    /\ posts' = <<>>
    /\ url' = 1
    /\ page_count' = 0
    /\ NoteFetch(1)
    /\ \/ \E why \in RaiseOutcomes :
            /\ cPc' = "raised"
            /\ NoteRaise(why)
            /\ UNCHANGED cSoup
       \/ \E soup \in FetchReturns :
            /\ cSoup' = IF NotSoup(soup) THEN cInitial ELSE soup
            /\ cPc' = "loop"
            /\ cDocs' = IF NotSoup(soup) THEN cDocs ELSE Counted(cDocs)
            /\ cLastNext' = IF NotSoup(soup) THEN -1 ELSE soup.next
            /\ cEndPage' = IF ~NotSoup(soup) /\ soup.next = 0 THEN 1 ELSE 0
            /\ cExpect' = WellFormed((IF NotSoup(soup) THEN cInitial ELSE soup).things, 1)
            /\ UNCHANGED cWhy
    /\ cInitial' = NonePage
    /\ UNCHANGED <<cKind, cLimit, cResult>>
    /\ UNCHANGED otherThanCollect

\* one iteration of the while loop of _scrape_subreddit_posts whose page has
\* no '.thing.link' or no next link: break before any fetch
SubredditIterLast ==
    /\ cKind = "subreddit_posts"
    /\ cPc = "loop"
    /\ Len(posts) < cLimit /\ page_count < max_pages
    /\ cSoup.things = <<>> \/ cSoup.next = 0
    /\ posts' = IF cSoup.things = <<>> THEN posts
                ELSE ExtractThings(posts, cSoup.things, 1, cLimit, page_count + 1)
    /\ cPc' = "exit"
    /\ cWhy' = IF cSoup.things = <<>> THEN "no_things" ELSE "complete"
    /\ UNCHANGED <<cKind, cLimit, url, page_count, cSoup, cInitial, cResult>>
    /\ UNCHANGED <<cFetches, cDocs, cLastNext, cFollowed, cEndPage, cExpect>>
    /\ UNCHANGED otherThanCollect

\* one iteration of the while loop of _scrape_subreddit_posts whose page has
\* records and a next link: the records are extracted, then the next page is
\* fetched, and only then does the loop test the limit and page_count
SubredditIterNext ==
    /\ cKind = "subreddit_posts"
    /\ cPc = "loop"
    /\ Len(posts) < cLimit /\ page_count < max_pages
    /\ cSoup.things # <<>> /\ cSoup.next # 0
    /\ NoteFetch(cSoup.next)
    /\ \/ \E why \in RaiseOutcomes :
            /\ cPc' = "raised"
            /\ NoteRaise(why)
            /\ posts' = ExtractThings(posts, cSoup.things, 1, cLimit, page_count + 1)
            /\ UNCHANGED <<page_count, cSoup>>
       \/ \E soup \in FetchReturns :
            /\ NoteReturn(soup, page_count + 2)
            /\ cSoup' = soup
            /\ IF NotSoup(soup)
               THEN /\ cPc' = "exit"
                    /\ cWhy' = "failed"
                    /\ posts' = ExtractThings(posts, cSoup.things, 1, cLimit, page_count + 1)
                    /\ UNCHANGED page_count
               ELSE /\ cPc' = "loop"
                    /\ posts' = ExtractThings(posts, cSoup.things, 1, cLimit, page_count + 1)
                    /\ page_count' = IncrPageCount(page_count)
                    /\ UNCHANGED cWhy
    /\ UNCHANGED <<cKind, cLimit, url, cInitial, cResult>>
    /\ UNCHANGED otherThanCollect

\* the end of _scrape_subreddit_posts: return posts
SubredditReturn ==
    /\ cKind = "subreddit_posts"
    /\ \/ cPc = "exit"
       \/ cPc = "loop" /\ ~(Len(posts) < cLimit /\ page_count < max_pages)
    /\ cResult' = posts
    /\ cPc' = "returned"
    /\ cWhy' = IF cPc = "loop" THEN "bounds" ELSE cWhy
    /\ UNCHANGED <<cKind, cLimit, posts, url, page_count, cSoup, cInitial>>
    /\ UNCHANGED <<cFetches, cDocs, cLastNext, cFollowed, cEndPage, cExpect>>
    /\ UNCHANGED otherThanCollect

NextCollect ==
    \/ StartPaged
    \/ UserPostsIter
    \/ UserPostsReturn
    \/ UserCommentsIter
    \/ UserCommentsReturn
    \/ SearchIter
    \/ SearchReturn
    \/ SubredditStart
    \/ SubredditIterLast
    \/ SubredditIterNext
    \/ SubredditReturn

(***************************************************************************)
(* The scraper objects and the browsing engine.  A session is a browser    *)
(* process of the engine, named by a number; an object's driver is a       *)
(* handle on one (0: None).  The engine is the environment: starting a     *)
(* session, running a script in it, quitting it, navigating and reading    *)
(* the page each succeed or raise as the engine likes.                     *)
(***************************************************************************)
MaxSessions == 3
MaxObjects  == 3
max_requests_before_rotation == 50
max_retries == 3

SessionIds == 1..MaxSessions
ObjectIds  == 1..MaxObjects
Threads    == {1, 2}

\* the objects something still names: the global, a thread's local
Referenced ==
    ({scraper} \cup {tRef[t] : t \in Threads} \cup {tObj[t] : t \in Threads}) \ {0}

\* the session state the operations below transform
Now == [driver |-> driver, request_count |-> request_count, live |-> live]

Becomes(S) ==
    /\ driver' = S.driver
    /\ request_count' = S.request_count
    /\ live' = S.live

\* the numbers the engine can give a new session: not one it runs, and not
\* one an object still holds a handle on
FreeIds(S) == SessionIds \ (S.live \cup {S.driver[o] : o \in Referenced})

NewSid(S) == CHOOSE n \in FreeIds(S) : \A m \in FreeIds(S) : n <= m

\* how driver.quit() can end: the session is gone, or the engine raises and
\* the session stays
QuitOutcomes == {"ok", "fail"}

\* driver.quit() on handle h
Quit(S, h, q) == [S EXCEPT !.live = IF q = "ok" THEN @ \ {h} ELSE @]

\* how _setup_driver can end: "ok"; webdriver.Chrome(...) raises
\* ("fail_start", self.driver keeps its old value); or the session starts,
\* self.driver is assigned and a stealth script raises ("fail_script").
\* An engine with no session left to give can only fail to start one.
SetupOutcomes(S) ==
    IF FreeIds(S) = {} THEN {"fail_start"} ELSE {"ok", "fail_start", "fail_script"}

\* RedditScraper._setup_driver on object o; it raises iff s # "ok"
setup_driver(S, o, s) ==
    IF s = "fail_start" THEN S
    ELSE [S EXCEPT !.driver[o] = NewSid(S), !.live = @ \cup {NewSid(S)}]

\* the first half of _rotate_session: if self.driver: try quit, except pass
rotate_quit(S, o, q) == IF S.driver[o] # 0 THEN Quit(S, S.driver[o], q) ELSE S

\* RedditScraper._rotate_session on object o; it raises iff s # "ok", and
\* then self.request_count = 0 is not reached
rotate_session(S, o, q, s) ==
    LET S2 == setup_driver(rotate_quit(S, o, q), o, s)
    IN  IF s = "ok" THEN [S2 EXCEPT !.request_count[o] = 0] ELSE S2

\* the test of _check_rotation_needed, on the incremented count
rotation_needed_gt(count) == count > max_requests_before_rotation

rotation_needed(count) == count >= max_requests_before_rotation

\* RedditScraper._check_rotation_needed on object o
check_rotation_needed(S, o, q, s) ==
    LET S1 == [S EXCEPT !.request_count[o] = @ + 1]
    IN  IF rotation_needed(S1.request_count[o])
        THEN rotate_session(S1, o, q, s)
        ELSE S1

\* whether that call of _check_rotation_needed calls _rotate_session
Rotates(S, o) == rotation_needed(S.request_count[o] + 1)

(***************************************************************************)
(* _get_page and _get_page_with_retry, one thread, call after call.        *)
(***************************************************************************)
MaxRequestCount == 54

\* the documents a navigation can load: a page with text, an empty page, a
\* page with a block phrase in upper case
LoadedSoups ==
    { [present |-> TRUE, text |-> <<"welcome">>],
      [present |-> TRUE, text |-> <<>>],
      [present |-> TRUE, text |-> <<"Rate", "limit">>] }

\* _get_page where nothing raises: the wait ends, _accept_reddit_cookies
\* runs and the page source d is parsed and returned
Loaded(d) == [soup |-> d, cause |-> "loaded", consent |-> TRUE]

\* a wait whose TimeoutException is swallowed: _get_page goes on to the
\* consent prompt and parses the page source d
WaitTimedOutGoesOn(d) == [soup |-> d, cause |-> "timeout", consent |-> TRUE]

\* _get_page where WebDriverWait(self.driver, 15).until(...) raises
\* TimeoutException on a page whose source is d: the except clause of
\* _get_page catches it and returns None; lines 250-256 do not run
WaitTimedOut(d) == [soup |-> NoneSoup, cause |-> "timeout", consent |-> FALSE]

\* how the part of _get_page after _check_rotation_needed can end on a live
\* session: the page is loaded and parsed; the wait times out; driver.get
\* raises, or (after the consent prompt) page_source or the parser raises
\* ("error").  Each exception is caught and _get_page returns None.
Loads ==
    {Loaded(d) : d \in LoadedSoups}
        \cup {WaitTimedOut(d) : d \in LoadedSoups}
        \cup {[soup |-> NoneSoup, cause |-> "error", consent |-> c] : c \in BOOLEAN}

\* the best-effort operations of _get_page that can fail when the rest of
\* _get_page ends as r: _simulate_human_behavior (before the navigation and
\* after the consent prompt) always runs the risk, _accept_reddit_cookies
\* only when it is reached
BestFailures(r) ==
    SUBSET ({"simulate"} \cup (IF r.consent THEN {"consent"} ELSE {}))

\* _get_page whose best-effort operations have no try of their own: what
\* they raise reaches the except clause of _get_page
BestEffortPropagates(r, best) ==
    IF best = {} THEN r
    ELSE [soup |-> NoneSoup, cause |-> "error", consent |-> r.consent]

\* what _get_page returns when the rest of it ends as r and the best-effort
\* operations in `best` fail: each of them is `try: ... except: pass`
BestEffort(r, best) == r

\* no engine operation in the step
NoEngine == [best |-> {}, load |-> "none", setup |-> "none"]

\* on a handle whose session is gone, or on None, driver.get raises
LoadsOn(S, o) ==
    IF S.driver[o] \in S.live THEN Loads
    ELSE {[soup |-> NoneSoup, cause |-> "error", consent |-> FALSE]}

\* the test of _get_page_with_retry: soup and not self._is_blocked(soup)
Usable(soup) == Truthy(soup) /\ ~is_blocked(soup)

\* the observers of the calls of _check_rotation_needed since the session
\* was fresh
NoteWindow(fresh, rotates) ==
    IF noteCalls = -1 \/ noteCalls >= max_requests_before_rotation
    THEN IF fresh
         THEN noteCalls' = 1 /\ autoRot' = (IF rotates THEN 1 ELSE 0)
         ELSE noteCalls' = -1 /\ autoRot' = 0
    ELSE noteCalls' = noteCalls + 1 /\ autoRot' = autoRot + (IF rotates THEN 1 ELSE 0)

\* a rotation other than the threshold's
VoidWindow(S) ==
    IF S.request_count[scraper] = 0
    THEN noteCalls' = 0 /\ autoRot' = 0
    ELSE noteCalls' = -1 /\ autoRot' = 0

\* the state the process is in once __main__ has called get_scraper()
InitSession ==
    /\ scraper = 1
    /\ driver = [o \in ObjectIds |-> IF o = 1 THEN 1 ELSE 0]
    /\ request_count = [o \in ObjectIds |-> 0]
    /\ live = {1}

InitFetch ==
    /\ fPc = "idle"
    /\ attempt = 0
    /\ fSoup = NoneSoup
    /\ fCause = "none"
    /\ fConsent = FALSE
    /\ fEngine = NoEngine
    /\ fCauses = <<>>
    /\ fOnce = 0
    /\ fSleeps = 0
    /\ fRetryRot = 0
    /\ fThreshRot = 0
    /\ fClears = 0
    /\ justRotated = FALSE
    /\ noteCalls = 0
    /\ autoRot = 0

Between == fPc \in {"idle", "returned", "exhausted", "raised"}

\* a caller calls _get_page_with_retry(url)
BeginFetch ==
    /\ Between
    /\ request_count[scraper] + max_retries <= MaxRequestCount
    /\ fPc' = "attempt"
    /\ attempt' = 0
    /\ fSoup' = NoneSoup
    /\ fCause' = "none"
    /\ fConsent' = FALSE
    /\ fEngine' = NoEngine
    /\ fCauses' = <<>>
    /\ fOnce' = 0
    /\ fSleeps' = 0
    /\ fRetryRot' = 0
    /\ fThreshRot' = 0
    /\ fClears' = 0
    /\ justRotated' = FALSE
    /\ UNCHANGED <<noteCalls, autoRot>>
    /\ UNCHANGED sessionVars
    /\ UNCHANGED otherThanFetch

\* the route /rotate between two calls: scraper._rotate_session()
ManualRotate ==
    /\ Between
    /\ \E q \in QuitOutcomes :
         \E s \in SetupOutcomes(rotate_quit(Now, scraper, q)) :
            LET S == rotate_session(Now, scraper, q, s)
            IN  /\ Becomes(S)
                /\ VoidWindow(S)
                /\ fEngine' = [best  |-> IF q = "fail" THEN {"quit"} ELSE {},
                               load  |-> "none",
                               setup |-> s]
    /\ justRotated' = TRUE
    /\ UNCHANGED scraper
    /\ UNCHANGED <<fPc, attempt, fSoup, fCause, fConsent, fCauses, fOnce, fSleeps,
                   fRetryRot, fThreshRot, fClears>>
    /\ UNCHANGED otherThanFetch

\* soup = self._get_page(url) where _check_rotation_needed does not rotate
GetPage ==
    /\ fPc = "attempt"
    /\ attempt < max_retries
    /\ ~Rotates(Now, scraper)
    /\ LET S == check_rotation_needed(Now, scraper, "ok", "ok")
       IN  /\ Becomes(S)
           /\ \E r \in LoadsOn(S, scraper) : \E b \in BestFailures(r) :
                /\ fSoup' = BestEffort(r, b).soup
                /\ fCause' = BestEffort(r, b).cause
                /\ fConsent' = BestEffort(r, b).consent
                /\ fEngine' = [best |-> b, load |-> r.cause, setup |-> "none"]
    /\ NoteWindow(request_count[scraper] = 0, FALSE)
    /\ fOnce' = fOnce + 1
    /\ justRotated' = FALSE
    /\ fPc' = "got"
    /\ UNCHANGED <<scraper, attempt, fCauses, fSleeps, fRetryRot, fThreshRot, fClears>>
    /\ UNCHANGED otherThanFetch

\* soup = self._get_page(url) where _check_rotation_needed rotates; when
\* _setup_driver raises, _get_page catches it and returns None
GetPageRotating ==
    /\ fPc = "attempt"
    /\ attempt < max_retries
    /\ Rotates(Now, scraper)
    /\ \E q \in QuitOutcomes :
         \E s \in SetupOutcomes(rotate_quit(Now, scraper, q)) :
            LET S == check_rotation_needed(Now, scraper, q, s)
            IN  /\ Becomes(S)
                /\ IF s = "ok"
                   THEN \E r \in LoadsOn(S, scraper) : \E b \in BestFailures(r) :
                            /\ fSoup' = BestEffort(r, b).soup
                            /\ fCause' = BestEffort(r, b).cause
                            /\ fConsent' = BestEffort(r, b).consent
                            /\ fEngine' = [best  |-> b \cup (IF q = "fail" THEN {"quit"} ELSE {}),
                                           load  |-> r.cause,
                                           setup |-> s]
                   ELSE /\ fSoup' = NoneSoup
                        /\ fCause' = "init_error"
                        /\ fConsent' = FALSE
                        /\ fEngine' = [best  |-> IF q = "fail" THEN {"quit"} ELSE {},
                                       load  |-> "none",
                                       setup |-> s]
    /\ NoteWindow(request_count[scraper] = 0, TRUE)
    /\ fOnce' = fOnce + 1
    /\ fThreshRot' = fThreshRot + 1
    /\ justRotated' = TRUE
    /\ fPc' = "got"
    /\ UNCHANGED <<scraper, attempt, fCauses, fSleeps, fRetryRot, fClears>>
    /\ UNCHANGED otherThanFetch

\* the success test placed after the backoff sleep: the call sleeps, then returns
ReturnSoupAfterSleep ==
    /\ fPc = "got"
    /\ Usable(fSoup)
    /\ fPc' = "returned"
    /\ fSleeps' = fSleeps + 1
    /\ justRotated' = FALSE
    /\ fEngine' = NoEngine
    /\ UNCHANGED <<attempt, fSoup, fCause, fConsent, fCauses, fOnce, fRetryRot,
                   fThreshRot, fClears, noteCalls, autoRot>>
    /\ UNCHANGED sessionVars
    /\ UNCHANGED otherThanFetch

\* if soup and not self._is_blocked(soup): return soup
ReturnSoup ==
    /\ fPc = "got"
    /\ Usable(fSoup)
    /\ fPc' = "returned"
    /\ justRotated' = FALSE
    /\ fEngine' = NoEngine
    /\ UNCHANGED <<attempt, fSoup, fCause, fConsent, fCauses, fOnce, fSleeps, fRetryRot,
                   fThreshRot, fClears, noteCalls, autoRot>>
    /\ UNCHANGED sessionVars
    /\ UNCHANGED otherThanFetch

\* how a failed attempt ended: the page was blocked, or _get_page returned None
FailureCause == IF fCause = "loaded" THEN "blocked" ELSE fCause

\* whether the retry path rotates after a failed attempt: if attempt > 0
RotatesOnRetryUnlessError(a, cause) == a > 0 /\ cause = "blocked"

RotatesOnEveryRetry(a, cause) == a >= 0

RotatesOnRetry(a, cause) == a > 0

\* the attempt failed: wait_time = ..., time.sleep(wait_time); then, unless
\* the session is to be rotated, the next attempt
Backoff ==
    /\ fPc = "got"
    /\ ~Usable(fSoup)
    /\ fCauses' = Append(fCauses, FailureCause)
    /\ fSleeps' = fSleeps + 1
    /\ IF RotatesOnRetry(attempt, FailureCause)
       THEN fPc' = "rotate" /\ UNCHANGED attempt
       ELSE /\ attempt' = attempt + 1
            /\ fPc' = IF attempt + 1 < max_retries THEN "attempt" ELSE "exhausted"
    /\ justRotated' = FALSE
    /\ fEngine' = NoEngine
    /\ UNCHANGED <<fSoup, fCause, fConsent, fOnce, fRetryRot, fThreshRot, fClears,
                   noteCalls, autoRot>>
    /\ UNCHANGED sessionVars
    /\ UNCHANGED otherThanFetch

\* if attempt > 0: self._rotate_session(); nothing catches what it raises
RetryRotate ==
    /\ fPc = "rotate"
    /\ \E q \in QuitOutcomes :
         \E s \in SetupOutcomes(rotate_quit(Now, scraper, q)) :
            LET S == rotate_session(Now, scraper, q, s)
            IN  /\ Becomes(S)
                /\ VoidWindow(S)
                /\ fPc' = IF s = "ok" THEN "clear" ELSE "raised"
                /\ fEngine' = [best  |-> IF q = "fail" THEN {"quit"} ELSE {},
                               load  |-> "none",
                               setup |-> s]
    /\ fRetryRot' = fRetryRot + 1
    /\ justRotated' = TRUE
    /\ UNCHANGED <<scraper, attempt, fSoup, fCause, fConsent, fCauses, fOnce, fSleeps,
                   fThreshRot, fClears>>
    /\ UNCHANGED otherThanFetch

\* self._clear_cookies(), that is `try: self.driver.delete_all_cookies()
\* except: pass`: it ends the same whether the engine raises or not; then the
\* next attempt, or return None after the last one
ClearCookies ==
    /\ fPc = "clear"
    /\ \E b \in {{}, {"clear"}} :
         /\ fEngine' = [best |-> b, load |-> "none", setup |-> "none"]
         /\ fPc' = IF attempt + 1 < max_retries THEN "attempt" ELSE "exhausted"
    /\ fClears' = fClears + 1
    /\ attempt' = attempt + 1
    /\ justRotated' = FALSE
    /\ UNCHANGED <<fSoup, fCause, fConsent, fCauses, fOnce, fSleeps, fRetryRot, fThreshRot,
                   noteCalls, autoRot>>
    /\ UNCHANGED sessionVars
    /\ UNCHANGED otherThanFetch

NextFetch ==
    \/ BeginFetch
    \/ ManualRotate
    \/ GetPage
    \/ GetPageRotating
    \/ ReturnSoup
    \/ Backoff
    \/ RetryRotate
    \/ ClearCookies

(***************************************************************************)
(* The routes /scrape, /rotate and /close served by threads (app.run       *)
(* serves each request in a thread of its own) that share the global       *)
(* scraper, one statement at a time.  Of /scrape the layer keeps           *)
(* get_scraper() and the first _get_page_with_retry the handler makes.     *)
(***************************************************************************)
MaxRequests == 3

InitThreads ==
    /\ tPc = [t \in Threads |-> "idle"]
    /\ tRef = [t \in Threads |-> 0]
    /\ tObj = [t \in Threads |-> 0]
    /\ tRet = [t \in Threads |-> "none"]
    /\ tAttempt = [t \in Threads |-> 0]
    /\ served = 0

\* a request arrives and a thread starts its handler
Request(t) ==
    /\ tPc[t] = "idle"
    /\ served < MaxRequests
    /\ served' = served + 1
    /\ \E entry \in {"gs_test", "rr_test", "cl_test"} : tPc' = [tPc EXCEPT ![t] = entry]
    /\ tRef' = [tRef EXCEPT ![t] = 0]
    /\ tObj' = [tObj EXCEPT ![t] = 0]
    /\ tRet' = [tRet EXCEPT ![t] = "none"]
    /\ tAttempt' = [tAttempt EXCEPT ![t] = 0]
    /\ UNCHANGED sessionVars
    /\ UNCHANGED otherThanThreads

\* get_scraper: if scraper is None
GetScraperTest(t) ==
    /\ tPc[t] = "gs_test"
    /\ tPc' = [tPc EXCEPT ![t] = IF scraper = 0 THEN "gs_new" ELSE "gs_return"]
    /\ UNCHANGED <<tRef, tObj, tRet, tAttempt, served>>
    /\ UNCHANGED sessionVars
    /\ UNCHANGED otherThanThreads

\* an object nothing names
FreeObject == CHOOSE o \in ObjectIds \ Referenced : \A p \in ObjectIds \ Referenced : o <= p

\* get_scraper: RedditScraper(), that is __init__: driver = None,
\* request_count = 0, _setup_driver().  When _setup_driver raises, the object
\* is dropped and /scrape answers 500; a session started by then stays
GetScraperConstruct(t) ==
    /\ tPc[t] = "gs_new"
    /\ ObjectIds \ Referenced # {}
    /\ LET o  == FreeObject
           S0 == [Now EXCEPT !.driver[o] = 0, !.request_count[o] = 0]
       IN  \E s \in SetupOutcomes(S0) :
              LET S == setup_driver(S0, o, s)
              IN  IF s = "ok"
                  THEN /\ Becomes(S)
                       /\ tObj' = [tObj EXCEPT ![t] = o]
                       /\ tPc' = [tPc EXCEPT ![t] = "gs_assign"]
                  ELSE /\ Becomes([S EXCEPT !.driver[o] = 0])
                       /\ tPc' = [tPc EXCEPT ![t] = "idle"]
                       /\ UNCHANGED tObj
    /\ UNCHANGED <<scraper, tRef, tRet, tAttempt, served>>
    /\ UNCHANGED otherThanThreads

\* get_scraper: scraper = <the new object>
GetScraperAssign(t) ==
    /\ tPc[t] = "gs_assign"
    /\ scraper' = tObj[t]
    /\ tObj' = [tObj EXCEPT ![t] = 0]
    /\ tPc' = [tPc EXCEPT ![t] = "gs_return"]
    /\ UNCHANGED <<driver, request_count, live, tRef, tRet, tAttempt, served>>
    /\ UNCHANGED otherThanThreads

\* get_scraper: return scraper; then the handler's first call on it.  On
\* None (a /close came in between) that call raises and /scrape answers 500
GetScraperReturn(t) ==
    /\ tPc[t] = "gs_return"
    /\ tRef' = [tRef EXCEPT ![t] = scraper]
    /\ tAttempt' = [tAttempt EXCEPT ![t] = 0]
    /\ tPc' = [tPc EXCEPT ![t] = IF scraper = 0 THEN "idle" ELSE "note"]
    /\ UNCHANGED <<tObj, tRet, served>>
    /\ UNCHANGED sessionVars
    /\ UNCHANGED otherThanThreads

\* _get_page: _check_rotation_needed up to its call of _rotate_session
NoteRequest(t) ==
    /\ tPc[t] = "note"
    /\ request_count' = [request_count EXCEPT ![tRef[t]] = @ + 1]
    /\ IF rotation_needed(request_count[tRef[t]] + 1)
       THEN /\ tPc' = [tPc EXCEPT ![t] = "rot_quit"]
            /\ tRet' = [tRet EXCEPT ![t] = "thresh"]
       ELSE /\ tPc' = [tPc EXCEPT ![t] = "nav"]
            /\ UNCHANGED tRet
    /\ UNCHANGED <<scraper, driver, live, tRef, tObj, tAttempt, served>>
    /\ UNCHANGED otherThanThreads

\* _rotate_session: if self.driver: try: self.driver.quit() except: pass
RotateQuit(t) ==
    /\ tPc[t] = "rot_quit"
    /\ \E q \in QuitOutcomes : Becomes(rotate_quit(Now, tRef[t], q))
    /\ tPc' = [tPc EXCEPT ![t] = "rot_setup"]
    /\ UNCHANGED <<scraper, tRef, tObj, tRet, tAttempt, served>>
    /\ UNCHANGED otherThanThreads

\* where a thread goes on when _rotate_session raises: _get_page catches it
\* and returns None; the retry path and /rotate let it reach the handler (500)
AfterRotateRaised(ret) == IF ret = "thresh" THEN "backoff" ELSE "idle"

\* _rotate_session: self._setup_driver()
RotateSetup(t) ==
    /\ tPc[t] = "rot_setup"
    /\ \E s \in SetupOutcomes(Now) :
          /\ Becomes(setup_driver(Now, tRef[t], s))
          /\ tPc' = [tPc EXCEPT ![t] = IF s = "ok" THEN "rot_reset"
                                       ELSE AfterRotateRaised(tRet[t])]
    /\ UNCHANGED <<scraper, tRef, tObj, tRet, tAttempt, served>>
    /\ UNCHANGED otherThanThreads

\* where a thread goes on when _rotate_session returns
AfterRotate(ret) ==
    CASE ret = "thresh" -> "nav"
      [] ret = "retry"  -> "clear"
      [] OTHER          -> "idle"

\* _rotate_session: self.request_count = 0
RotateReset(t) ==
    /\ tPc[t] = "rot_reset"
    /\ request_count' = [request_count EXCEPT ![tRef[t]] = 0]
    /\ tPc' = [tPc EXCEPT ![t] = AfterRotate(tRet[t])]
    /\ UNCHANGED <<scraper, driver, live, tRef, tObj, tRet, tAttempt, served>>
    /\ UNCHANGED otherThanThreads

\* _get_page: self.driver.get(url) and the wait for the page, on the handle
\* self.driver names now; it raises on a session that is gone
Navigate(t) ==
    /\ tPc[t] = "nav"
    /\ \E r \in LoadsOn(Now, tRef[t]) :
          tPc' = [tPc EXCEPT ![t] = IF r.cause = "loaded" THEN "read" ELSE "backoff"]
    /\ UNCHANGED <<tRef, tObj, tRet, tAttempt, served>>
    /\ UNCHANGED sessionVars
    /\ UNCHANGED otherThanThreads

\* _get_page: BeautifulSoup(self.driver.page_source), on the handle
\* self.driver names now, and _get_page_with_retry's test of the soup
ReadPage(t) ==
    /\ tPc[t] = "read"
    /\ \E r \in LoadsOn(Now, tRef[t]) :
          tPc' = [tPc EXCEPT ![t] = IF Usable(r.soup) THEN "idle" ELSE "backoff"]
    /\ UNCHANGED <<tRef, tObj, tRet, tAttempt, served>>
    /\ UNCHANGED sessionVars
    /\ UNCHANGED otherThanThreads

\* _get_page_with_retry: the sleep after a failed attempt, then the rotation
\* (attempt > 0) or the next attempt
ThreadBackoff(t) ==
    /\ tPc[t] = "backoff"
    /\ IF RotatesOnRetry(tAttempt[t], "blocked")
       THEN /\ tPc' = [tPc EXCEPT ![t] = "rot_quit"]
            /\ tRet' = [tRet EXCEPT ![t] = "retry"]
            /\ UNCHANGED tAttempt
       ELSE /\ tAttempt' = [tAttempt EXCEPT ![t] = @ + 1]
            /\ tPc' = [tPc EXCEPT ![t] = IF tAttempt[t] + 1 < max_retries THEN "note" ELSE "idle"]
            /\ UNCHANGED tRet
    /\ UNCHANGED <<tRef, tObj, served>>
    /\ UNCHANGED sessionVars
    /\ UNCHANGED otherThanThreads

\* _get_page_with_retry: self._clear_cookies(), then the next attempt or
\* return None
ThreadClearCookies(t) ==
    /\ tPc[t] = "clear"
    /\ tAttempt' = [tAttempt EXCEPT ![t] = @ + 1]
    /\ tPc' = [tPc EXCEPT ![t] = IF tAttempt[t] + 1 < max_retries THEN "note" ELSE "idle"]
    /\ UNCHANGED <<tRef, tObj, tRet, served>>
    /\ UNCHANGED sessionVars
    /\ UNCHANGED otherThanThreads

\* the route /rotate: if scraper
RotateRouteTest(t) ==
    /\ tPc[t] = "rr_test"
    /\ tPc' = [tPc EXCEPT ![t] = IF scraper # 0 THEN "rr_call" ELSE "idle"]
    /\ UNCHANGED <<tRef, tObj, tRet, tAttempt, served>>
    /\ UNCHANGED sessionVars
    /\ UNCHANGED otherThanThreads

\* the route /rotate: scraper._rotate_session(), on what the global names now
RotateRouteCall(t) ==
    /\ tPc[t] = "rr_call"
    /\ tRef' = [tRef EXCEPT ![t] = scraper]
    /\ tRet' = [tRet EXCEPT ![t] = "route"]
    /\ tPc' = [tPc EXCEPT ![t] = IF scraper # 0 THEN "rot_quit" ELSE "idle"]
    /\ UNCHANGED <<tObj, tAttempt, served>>
    /\ UNCHANGED sessionVars
    /\ UNCHANGED otherThanThreads

\* the route /close: if scraper
CloseRouteTest(t) ==
    /\ tPc[t] = "cl_test"
    /\ tPc' = [tPc EXCEPT ![t] = IF scraper # 0 THEN "cl_quit" ELSE "idle"]
    /\ UNCHANGED <<tRef, tObj, tRet, tAttempt, served>>
    /\ UNCHANGED sessionVars
    /\ UNCHANGED otherThanThreads

\* the route /close: scraper.close(), that is if self.driver:
\* self.driver.quit(); what quit raises reaches Flask (500) and the global
\* keeps the object
CloseRouteQuit(t) ==
    /\ tPc[t] = "cl_quit"
    /\ IF scraper = 0
       THEN /\ tPc' = [tPc EXCEPT ![t] = "idle"]
            /\ UNCHANGED <<driver, request_count, live>>
       ELSE IF driver[scraper] = 0
       THEN /\ tPc' = [tPc EXCEPT ![t] = "cl_assign"]
            /\ UNCHANGED <<driver, request_count, live>>
       ELSE \E q \in QuitOutcomes :
              /\ Becomes(Quit(Now, driver[scraper], q))
              /\ tPc' = [tPc EXCEPT ![t] = IF q = "ok" THEN "cl_assign" ELSE "idle"]
    /\ UNCHANGED <<scraper, tRef, tObj, tRet, tAttempt, served>>
    /\ UNCHANGED otherThanThreads

\* the route /close: scraper = None
CloseRouteAssign(t) ==
    /\ tPc[t] = "cl_assign"
    /\ scraper' = 0
    /\ tPc' = [tPc EXCEPT ![t] = "idle"]
    /\ UNCHANGED <<driver, request_count, live, tRef, tObj, tRet, tAttempt, served>>
    /\ UNCHANGED otherThanThreads

NextThreads ==
    \E t \in Threads :
        \/ Request(t)
        \/ GetScraperTest(t)
        \/ GetScraperConstruct(t)
        \/ GetScraperAssign(t)
        \/ GetScraperReturn(t)
        \/ NoteRequest(t)
        \/ RotateQuit(t)
        \/ RotateSetup(t)
        \/ RotateReset(t)
        \/ Navigate(t)
        \/ ReadPage(t)
        \/ ThreadBackoff(t)
        \/ ThreadClearCookies(t)
        \/ RotateRouteTest(t)
        \/ RotateRouteCall(t)
        \/ CloseRouteTest(t)
        \/ CloseRouteQuit(t)
        \/ CloseRouteAssign(t)

(***************************************************************************)
(* The handlers of /scrape, /close and /rotate, one request at a time, up  *)
(* to the response.  A call of scrape_user_posts, scrape_user_comments,    *)
(* _scrape_subreddit_posts or search_reddit is one step here, with what    *)
(* SpecCollect shows of such a call at the default limit: it returns at    *)
(* most `limit` records or raises, after at least one fetch.  What the     *)
(* fetches do to the session is the matter of SpecFetch and is left out    *)
(* here; hFetches counts the calls of _get_page_with_retry, each of which  *)
(* calls _get_page, and so increments request_count, at least once.        *)
(***************************************************************************)
MaxServed == 3

Types  == {"user", "community", "search", "other", "no_body"}
Fields == {"absent", "blank", "null", "text"}

\* how a call of a pagination loop with the default limit can end
CollectOutcomes(kind) ==
    [collected : 0..MaxLimit,
     fetches   : 1..(IF kind = "subreddit_posts" THEN max_pages + 1 ELSE max_pages),
     raised    : BOOLEAN]

\* how the single-page step of scrape_user_profile / scrape_subreddit can
\* end: _get_page_with_retry raises ("raised") or returns None ("no_page"); the
\* page says the entity does not exist ("absent"); the try block raises
\* ("parse_error"); or the data is extracted ("ok")
PageOutcomes == {"raised", "no_page", "absent", "parse_error", "ok"}

\* the 'error' of the dict the single-page step returns ("none": no such key)
error_of(outcome) ==
    CASE outcome \in {"no_page", "absent"} -> "not_found"
      [] outcome = "parse_error"        -> "parse_error"
      [] OTHER                          -> "none"

\* status_code = 404 if data['error'] == 'not_found' else 500
status_code(error) == IF error = "not_found" THEN 404 ELSE 500

\* a handler that goes on to the paginated calls unless the error is not_found
has_error_not_found_only(error) == error = "not_found"

\* if user_data.get('error') / if result.get('error')
has_error(error) == error # "none"

\* close_scraper without its statement scraper = None
close_keeps_global(g) == g

\* close_scraper: scraper = None
close_assign(g) == 0

InitServe ==
    /\ hPc = "idle"
    /\ hRoute = "none"
    /\ hType = "other"
    /\ hField = "absent"
    /\ hStatus = 0
    /\ hError = "none"
    /\ hCarried = 0
    /\ hPosts = 0
    /\ hGot = 0
    /\ hCause = "none"
    /\ hTrace = <<>>
    /\ hFetches = 0
    /\ hBefore = <<"none", 0>>
    /\ hServed = 0

\* a request arrives at the idle server
Receive(route) ==
    /\ hPc = "idle"
    /\ hServed < MaxServed
    /\ hServed' = hServed + 1
    /\ hRoute' = route
    /\ hBefore' = <<hRoute, hStatus>>
    /\ hPosts' = 0
    /\ hGot' = 0
    /\ hCause' = "none"
    /\ hTrace' = <<>>
    /\ hFetches' = 0

\* the handler returns its response
Respond(status, error, carried) ==
    /\ hPc' = "idle"
    /\ hStatus' = status
    /\ hError' = error
    /\ hCarried' = carried

\* the observers' update at a step that fetches
NoteStep(step, fetches, got, cause) ==
    /\ hTrace' = Append(hTrace, step)
    /\ hFetches' = hFetches + fetches
    /\ hGot' = hGot + got
    /\ hCause' = cause

\* scrape: data = request.json; scrape_type = data.get('type').  Without a
\* JSON body this raises, and the except clause answers 500
ScrapeRead ==
    /\ Receive("scrape")
    /\ \E type \in Types, field \in Fields :
         /\ hType' = type
         /\ hField' = field
         /\ IF type = "no_body"
            THEN Respond(500, "internal_error", 0)
            ELSE hPc' = "get_scraper" /\ hStatus' = 0 /\ hError' = "none" /\ hCarried' = 0
    /\ UNCHANGED sessionVars
    /\ UNCHANGED otherThanServe

\* scrape: reddit_scraper = get_scraper(), before any look at the fields
ScrapeGetScraper ==
    /\ hPc = "get_scraper"
    /\ IF scraper # 0
       THEN /\ hPc' = "validate"
            /\ UNCHANGED <<sessionVars, hStatus, hError, hCarried>>
       ELSE LET o  == FreeObject
                S0 == [Now EXCEPT !.driver[o] = 0, !.request_count[o] = 0]
            IN  \E s \in SetupOutcomes(S0) :
                   LET S == setup_driver(S0, o, s)
                   IN  IF s = "ok"
                       THEN /\ Becomes(S)
                            /\ scraper' = o
                            /\ hPc' = "validate"
                            /\ UNCHANGED <<hStatus, hError, hCarried>>
                       ELSE /\ Becomes([S EXCEPT !.driver[o] = 0])
                            /\ UNCHANGED scraper
                            /\ Respond(500, "internal_error", 0)
    /\ UNCHANGED <<hRoute, hType, hField, hPosts, hGot, hCause, hTrace, hFetches,
                   hBefore, hServed>>
    /\ UNCHANGED otherThanServe

\* scrape: the branch on scrape_type and the test of the required field,
\* data.get(<field>, '').strip(), which raises on a value that is no string
ScrapeValidate ==
    /\ hPc = "validate"
    /\ IF hType = "other" THEN Respond(400, "bad_request", 0)
       ELSE IF hField = "null" THEN Respond(500, "internal_error", 0)
       ELSE IF hField \in {"absent", "blank"} THEN Respond(400, "bad_request", 0)
       ELSE /\ hPc' = CASE hType = "user"      -> "profile"
                        [] hType = "community" -> "community"
                        [] OTHER               -> "search"
            /\ UNCHANGED <<hStatus, hError, hCarried>>
    /\ UNCHANGED <<hRoute, hType, hField, hPosts, hGot, hCause, hTrace, hFetches,
                   hBefore, hServed>>
    /\ UNCHANGED sessionVars
    /\ UNCHANGED otherThanServe

\* scrape: user_data = reddit_scraper.scrape_user_profile(username) and the
\* test of its 'error'.  What _get_page_with_retry raises reaches the except
\* clause of scrape
ScrapeProfile ==
    /\ hPc = "profile"
    /\ \E outcome \in PageOutcomes :
         /\ NoteStep("profile", 1, 0, outcome)
         /\ IF outcome = "raised" THEN Respond(500, "internal_error", 0)
            ELSE IF has_error(error_of(outcome))
            THEN Respond(status_code(error_of(outcome)), error_of(outcome), 0)
            ELSE hPc' = "posts" /\ UNCHANGED <<hStatus, hError, hCarried>>
    /\ UNCHANGED <<hRoute, hType, hField, hPosts, hBefore, hServed>>
    /\ UNCHANGED sessionVars
    /\ UNCHANGED otherThanServe

\* scrape: posts = reddit_scraper.scrape_user_posts(username)
ScrapePosts ==
    /\ hPc = "posts"
    /\ \E o \in CollectOutcomes("user_posts") :
         /\ NoteStep("posts", o.fetches, o.collected, hCause)
         /\ IF o.raised
            THEN Respond(500, "internal_error", 0) /\ UNCHANGED hPosts
            ELSE /\ hPosts' = o.collected
                 /\ hPc' = "comments"
                 /\ UNCHANGED <<hStatus, hError, hCarried>>
    /\ UNCHANGED <<hRoute, hType, hField, hBefore, hServed>>
    /\ UNCHANGED sessionVars
    /\ UNCHANGED otherThanServe

\* scrape: comments = reddit_scraper.scrape_user_comments(username), and
\* the response with user, posts and comments
ScrapeComments ==
    /\ hPc = "comments"
    /\ \E o \in CollectOutcomes("user_comments") :
         /\ NoteStep("comments", o.fetches, o.collected, hCause)
         /\ IF o.raised
            THEN Respond(500, "internal_error", 0)
            ELSE Respond(200, "none", hPosts + o.collected)
    /\ UNCHANGED <<hRoute, hType, hField, hPosts, hBefore, hServed>>
    /\ UNCHANGED sessionVars
    /\ UNCHANGED otherThanServe

\* scrape: result = reddit_scraper.scrape_subreddit(subreddit) and the test
\* of its 'error'.  In scrape_subreddit the fetch of the landing page is
\* outside the try block; the sidebar extraction and _scrape_subreddit_posts
\* are inside it, and whatever they raise becomes parse_error
ScrapeCommunity ==
    /\ hPc = "community"
    /\ \E outcome \in PageOutcomes :
         IF outcome = "raised"
         THEN /\ NoteStep("landing", 1, 0, outcome)
              /\ Respond(500, "internal_error", 0)
         ELSE IF has_error(error_of(outcome))
         THEN /\ NoteStep("landing", 1, 0, outcome)
              /\ Respond(status_code(error_of(outcome)), error_of(outcome), 0)
         ELSE \E o \in CollectOutcomes("subreddit_posts") :
                /\ hTrace' = hTrace \o <<"landing", "posts">>
                /\ hFetches' = hFetches + 1 + o.fetches
                /\ hGot' = hGot + o.collected
                /\ hCause' = IF o.raised THEN "parse_error" ELSE outcome
                /\ IF o.raised
                   THEN Respond(status_code("parse_error"), "parse_error", 0)
                   ELSE Respond(200, "none", o.collected)
    /\ UNCHANGED <<hRoute, hType, hField, hPosts, hBefore, hServed>>
    /\ UNCHANGED sessionVars
    /\ UNCHANGED otherThanServe

\* scrape: result = reddit_scraper.search_reddit(keyword) and the response
ScrapeSearch ==
    /\ hPc = "search"
    /\ \E o \in CollectOutcomes("search") :
         /\ NoteStep("search", o.fetches, o.collected, hCause)
         /\ IF o.raised
            THEN Respond(500, "internal_error", 0)
            ELSE Respond(200, "none", o.collected)
    /\ UNCHANGED <<hRoute, hType, hField, hPosts, hBefore, hServed>>
    /\ UNCHANGED sessionVars
    /\ UNCHANGED otherThanServe

\* close_scraper: if scraper: scraper.close(); scraper = None.  close() is
\* `if self.driver: self.driver.quit()`; what quit raises leaves the handler
\* before the assignment, and Flask answers 500
ServeClose ==
    /\ Receive("close")
    /\ IF scraper = 0
       THEN Respond(200, "none", 0) /\ UNCHANGED sessionVars
       ELSE IF driver[scraper] = 0
       THEN /\ scraper' = close_assign(scraper)
            /\ Respond(200, "none", 0)
            /\ UNCHANGED <<driver, request_count, live>>
       ELSE \E q \in QuitOutcomes :
              /\ Becomes(Quit(Now, driver[scraper], q))
              /\ IF q = "ok"
                 THEN scraper' = close_assign(scraper) /\ Respond(200, "none", 0)
                 ELSE UNCHANGED scraper /\ Respond(500, "internal_error", 0)
    /\ UNCHANGED <<hType, hField>>
    /\ UNCHANGED otherThanServe

\* rotate_session (the route): if scraper: scraper._rotate_session()
ServeRotate ==
    /\ Receive("rotate")
    /\ IF scraper = 0
       THEN Respond(200, "none", 0) /\ UNCHANGED sessionVars
       ELSE \E q \in QuitOutcomes :
              \E s \in SetupOutcomes(rotate_quit(Now, scraper, q)) :
                 /\ Becomes(rotate_session(Now, scraper, q, s))
                 /\ UNCHANGED scraper
                 /\ IF s = "ok" THEN Respond(200, "none", 0)
                    ELSE Respond(500, "internal_error", 0)
    /\ UNCHANGED <<hType, hField>>
    /\ UNCHANGED otherThanServe

NextServe ==
    \/ ScrapeRead
    \/ ScrapeGetScraper
    \/ ScrapeValidate
    \/ ScrapeProfile
    \/ ScrapePosts
    \/ ScrapeComments
    \/ ScrapeCommunity
    \/ ScrapeSearch
    \/ ServeClose
    \/ ServeRotate

(***************************************************************************)
(* The backoff waits of _get_page_with_retry: after each failed attempt    *)
(* the call sleeps (2 ** attempt) * random.uniform(3, 6) seconds.  Time is *)
(* counted in units of 1/UniformSteps second, and random.uniform(3, 6)     *)
(* returns any multiple of the unit between 3 and 6 seconds.               *)
(***************************************************************************)
UniformSteps == 2

\* random.uniform(3, 6), in units
Uniform == (3 * UniformSteps)..(6 * UniformSteps)

\* a wait that grows with the attempt index, not with its power of two
wait_time_linear(a, u) == (a + 1) * u

\* wait_time = (2 ** attempt) * random.uniform(3, 6)
wait_time(a, u) == (2 ^ a) * u

InitBackoff ==
    /\ wAttempt = 0
    /\ wWaits = <<>>

\* one failed attempt of the for loop: the wait is computed and slept
SleepBackoff ==
    /\ wAttempt < max_retries
    /\ \E u \in Uniform : wWaits' = Append(wWaits, wait_time(wAttempt, u))
    /\ wAttempt' = wAttempt + 1
    /\ UNCHANGED otherThanBackoff

NextBackoff == SleepBackoff

(***************************************************************************)
(* scrape_user_posts, _scrape_subreddit_posts and search_reddit as         *)
(* functions of what their fetches return: the n-th call of                *)
(* _get_page_with_retry a loop makes returns the n-th entry of the feed,   *)
(* whatever url it asks for, and None once the feed is used up.            *)
(***************************************************************************)
MaxFeed == 3

Feeds == [1..MaxFeed -> FetchReturns]

\* the landing page scrape_subreddit hands over as initial_soup: one with a
\* record and no next link, or one with no '.thing.link'
InitialSoups ==
    { [present |-> TRUE, things |-> <<TRUE>>, next |-> 0],
      [present |-> TRUE, things |-> <<>>, next |-> 0] }

\* what call number n of _get_page_with_retry returns
FetchAt(feed, n) == IF n <= Len(feed) THEN feed[n] ELSE NonePage

\* the while loop of scrape_user_posts, from the state (posts, page_count)
\* after `fetches` calls
RECURSIVE UserPostsLoop(_, _, _, _, _)
UserPostsLoop(feed, limit, list, count, fetches) ==
    IF ~(Len(list) < limit /\ count < max_pages)
    THEN [posts |-> list, fetches |-> fetches]
    ELSE LET soup == FetchAt(feed, fetches + 1)
         IN  IF NotSoup(soup) \/ soup.things = <<>>
             THEN [posts |-> list, fetches |-> fetches + 1]
             ELSE LET got == ExtractThings(list, soup.things, 1, limit, count + 1)
                  IN  IF soup.next # 0
                      THEN UserPostsLoop(feed, limit, got, count + 1, fetches + 1)
                      ELSE [posts |-> got, fetches |-> fetches + 1]

\* RedditScraper.scrape_user_posts: the list returned and the calls made
scrape_user_posts(feed, limit) ==
    LET r == UserPostsLoop(feed, limit, <<>>, 0, 0)
    IN  [result |-> Truncate(r.posts, limit), fetches |-> r.fetches]

\* the while loop of search_reddit
RECURSIVE SearchLoop(_, _, _, _, _)
SearchLoop(feed, limit, list, count, fetches) ==
    IF ~(Len(list) < limit /\ count < max_pages)
    THEN [posts |-> list, fetches |-> fetches]
    ELSE LET soup == FetchAt(feed, fetches + 1)
         IN  IF NotSoup(soup) \/ soup.things = <<>>
             THEN [posts |-> list, fetches |-> fetches + 1]
             ELSE LET got == ExtractThings(list, soup.things, 1, limit, count + 1)
                  IN  IF soup.next # 0
                      THEN SearchLoop(feed, limit, got, count + 1, fetches + 1)
                      ELSE [posts |-> got, fetches |-> fetches + 1]

\* RedditScraper.search_reddit: the list under 'posts' and the calls made
search_reddit(feed, limit) ==
    LET r == SearchLoop(feed, limit, <<>>, 0, 0)
    IN  [result |-> r.posts, fetches |-> r.fetches]

\* the while loop of _scrape_subreddit_posts, which holds the page to
\* process in soup and fetches the next one at the end of its body
RECURSIVE SubredditLoop(_, _, _, _, _, _)
SubredditLoop(feed, limit, list, count, soup, fetches) ==
    IF ~(Len(list) < limit /\ count < max_pages)
    THEN [posts |-> list, fetches |-> fetches]
    ELSE IF soup.things = <<>>
    THEN [posts |-> list, fetches |-> fetches]
    ELSE LET got == ExtractThings(list, soup.things, 1, limit, count + 1)
         IN  IF soup.next # 0
             THEN LET following == FetchAt(feed, fetches + 1)
                  IN  IF NotSoup(following)
                      THEN [posts |-> got, fetches |-> fetches + 1]
                      ELSE SubredditLoop(feed, limit, got, count + 1, following, fetches + 1)
             ELSE [posts |-> got, fetches |-> fetches]

\* RedditScraper._scrape_subreddit_posts: the page /new is fetched first,
\* and initial_soup stands in for it when that fetch fails
scrape_subreddit_posts(feed, limit, initial_soup) ==
    LET first == FetchAt(feed, 1)
        r     == SubredditLoop(feed, limit, <<>>, 0,
                               IF NotSoup(first) THEN initial_soup ELSE first, 1)
    IN  [result |-> r.posts, fetches |-> r.fetches]

NotRun == [result |-> <<>>, fetches |-> -1]

CompareKinds == {"user_posts", "subreddit_posts", "search"}

InitCompare ==
    /\ qLimit \in 0..MaxLimit
    /\ qFeed \in Feeds
    /\ qInitial \in InitialSoups
    /\ qOut = [k \in CompareKinds |-> NotRun]

IdleCompare ==
    /\ qLimit = 0
    /\ qFeed = [n \in 1..MaxFeed |-> NonePage]
    /\ qInitial = [present |-> TRUE, things |-> <<>>, next |-> 0]
    /\ qOut = [k \in CompareKinds |-> NotRun]

RunUserPosts ==
    /\ qOut["user_posts"] = NotRun
    /\ qOut' = [qOut EXCEPT !["user_posts"] = scrape_user_posts(qFeed, qLimit)]
    /\ UNCHANGED <<qLimit, qFeed, qInitial>>
    /\ UNCHANGED otherThanCompare

RunSubredditPosts ==
    /\ qOut["subreddit_posts"] = NotRun
    /\ qOut' = [qOut EXCEPT !["subreddit_posts"] =
                    scrape_subreddit_posts(qFeed, qLimit, qInitial)]
    /\ UNCHANGED <<qLimit, qFeed, qInitial>>
    /\ UNCHANGED otherThanCompare

RunSearch ==
    /\ qOut["search"] = NotRun
    /\ qOut' = [qOut EXCEPT !["search"] = search_reddit(qFeed, qLimit)]
    /\ UNCHANGED <<qLimit, qFeed, qInitial>>
    /\ UNCHANGED otherThanCompare

NextCompare ==
    \/ RunUserPosts
    \/ RunSubredditPosts
    \/ RunSearch

vars == <<blockVars, collectVars, sessionVars, fetchVars, threadVars, serveVars,
          backoffVars, compareVars>>

IdleBlocked == bDoc = NoneSoup /\ bPc = "call" /\ bResult = FALSE

IdleCollect ==
    /\ cKind = "search" /\ cLimit = 0 /\ cPc = "start" /\ posts = <<>> /\ url = 0
    /\ page_count = 0 /\ cSoup = NonePage /\ cInitial = NonePage
    /\ cResult = <<>> /\ cFetches = 0 /\ cDocs = 0 /\ cLastNext = -1
    /\ cFollowed = TRUE /\ cEndPage = 0 /\ cExpect = <<>> /\ cWhy = "running"

NextBlocked == CallIsBlocked

\* _is_blocked applied to any document
StartBlocked ==
    InitBlocked /\ IdleCollect /\ InitSession /\ InitFetch /\ InitThreads /\ InitServe
        /\ InitBackoff /\ IdleCompare

SpecBlocked == StartBlocked /\ [][NextBlocked]_vars

\* one collect call of any kind, with any limit
StartCollect ==
    InitCollect /\ IdleBlocked /\ InitSession /\ InitFetch /\ InitThreads /\ InitServe
        /\ InitBackoff /\ IdleCompare

SpecCollect == StartCollect /\ [][NextCollect]_vars

\* the same, where the interpreter goes on executing the call: each
\* statement, each call of _get_page_with_retry included, comes to its end
SpecCollectLive == StartCollect /\ [][NextCollect]_vars /\ WF_vars(NextCollect)

\* the started server, one request at a time
StartFetch ==
    InitSession /\ InitFetch /\ IdleBlocked /\ IdleCollect /\ InitThreads /\ InitServe
        /\ InitBackoff /\ IdleCompare

SpecFetch == StartFetch /\ [][NextFetch]_vars

\* the server with request threads: not started yet or started, and in the
\* latter case fresh or two requests short of the rotation threshold
StartSession ==
    /\ \/ InitSession
       \/ /\ scraper = 0
          /\ driver = [o \in ObjectIds |-> 0]
          /\ request_count = [o \in ObjectIds |-> 0]
          /\ live = {}
       \/ /\ scraper = 1
          /\ driver = [o \in ObjectIds |-> IF o = 1 THEN 1 ELSE 0]
          /\ request_count = [o \in ObjectIds |-> IF o = 1 THEN max_requests_before_rotation - 2 ELSE 0]
          /\ live = {1}
    /\ InitThreads /\ InitFetch /\ IdleBlocked /\ IdleCollect /\ InitServe /\ InitBackoff
    /\ IdleCompare

SpecSession == StartSession /\ [][NextThreads]_vars

\* the started server, one request at a time, with its responses
StartServe ==
    InitSession /\ InitServe /\ InitFetch /\ IdleBlocked /\ IdleCollect /\ InitThreads
        /\ InitBackoff /\ IdleCompare

SpecServe == StartServe /\ [][NextServe]_vars

\* one call of _get_page_with_retry, seen through its sleeps
StartBackoff ==
    InitBackoff /\ IdleBlocked /\ IdleCollect /\ InitSession /\ InitFetch /\ InitThreads
        /\ InitServe /\ IdleCompare

SpecBackoff == StartBackoff /\ [][NextBackoff]_vars

\* the three loops given one limit and one series of fetch results
StartCompare ==
    InitCompare /\ IdleBlocked /\ IdleCollect /\ InitSession /\ InitFetch /\ InitThreads
        /\ InitServe /\ InitBackoff

SpecCompare == StartCompare /\ [][NextCompare]_vars

(***************************************************************************)
(* Claims about _is_blocked (SpecBlocked)                                  *)
(***************************************************************************)

\* C9: _is_blocked is true exactly of a document that is absent or empty or
\* whose lowercased text holds one of the seven block phrases.
C9_BlockedIffAbsentEmptyOrPhrase ==
    bPc = "done"
        => (bResult <=> \/ ~bDoc.present
                        \/ bDoc.text = <<>>
                        \/ \E k \in 1..Len(blocked_indicators) :
                              Contains(Lower(bDoc.text), blocked_indicators[k]))

(***************************************************************************)
(* Claims about the pagination loops (SpecCollect)                         *)
(***************************************************************************)

\* C1: whatever the pages hold and however the fetches end, the list a
\* collect call returns has at most `limit` records, in each of the four loops.
C1_ReturnsAtMostLimit == cPc = "returned" => Len(cResult) <= cLimit

\* C1's case: a subreddit call that filled its limit over at least two pages
C1_Witness ==
    /\ cPc = "returned"
    /\ cKind = "subreddit_posts"
    /\ cLimit = MaxLimit
    /\ Len(cResult) = cLimit
    /\ cFetches >= 2

\* C2: one collect call makes at most max_pages calls of _get_page_with_retry,
\* in each of the four loops.
C2_AtMostMaxPagesFetches == cFetches <= max_pages

\* C12: when the fetch of page k (k >= 2) has failed on every attempt, the
\* collect call returns exactly the records of pages 1..k-1, in order (cut at
\* the limit), and fetches nothing more.
C12_PartialResultsKept ==
    (cFetches >= 2 /\ cWhy \in {"failed", "raised_after_3"})
        => /\ cPc \in {"exit", "returned"}
           /\ posts = Truncate(cExpect, cLimit)
           /\ cPc = "returned" => cResult = posts

\* the pages that brought the records of a list
PagesOf(list) == {list[i][1] : i \in 1..Len(list)}

\* C13: given three pages fetched with success, each with records, next
\* links on pages 1 and 2 and none on page 3, and a limit the records do not
\* exceed (max_pages = 5), the collect call returns exactly those records in
\* page order, having left the loop at the missing next link ("complete"),
\* after exactly 3 calls of _get_page_with_retry.
C13_ThreePagesComplete ==
    (/\ cPc = "returned"
     /\ cDocs = cFetches
     /\ PagesOf(cExpect) = {1, 2, 3}
     /\ cEndPage = 3
     /\ Len(cExpect) <= cLimit)
        => /\ cFetches = 3
           /\ cResult = cExpect
           /\ cWhy = "complete"

\* C13's case: a user-posts call that returned the records of three pages
C13_Witness ==
    /\ cPc = "returned"
    /\ cKind = "user_posts"
    /\ cFetches = 3 /\ cDocs = 3 /\ cEndPage = 3
    /\ PagesOf(cResult) = {1, 2, 3}
    /\ cWhy = "complete"

IsPrefix(p, list) == Len(p) <= Len(list) /\ SubSeq(list, 1, Len(p)) = p

\* records in page order and, within a page, in document order
Ordered(list) ==
    \A i \in 1..(Len(list) - 1) :
        \/ list[i][1] < list[i + 1][1]
        \/ list[i][1] = list[i + 1][1] /\ list[i][2] < list[i + 1][2]

C25_LoopsAgree ==
    (qLimit >= 1 /\ \A k \in CompareKinds : qOut[k] # NotRun)
        => /\ qOut["user_posts"] = qOut["search"]
           /\ qOut["user_posts"] = qOut["subreddit_posts"]

\* the records in the list at the moment the step's call of
\* _get_page_with_retry is made: the subreddit loop extracts the page it holds
\* and then fetches, the other loops fetch and then extract
HeldAtFetch == IF cKind = "subreddit_posts" THEN Len(posts') ELSE Len(posts)

\* C28: in each of the four loops (limit >= 1), a call of
\* _get_page_with_retry is made only while the list holds fewer than `limit`
\* records, also when the page just processed has a next link.
C28_NoFetchAtLimit ==
    [][(cFetches' = cFetches + 1 /\ cLimit >= 1) => HeldAtFetch < cLimit]_vars

\* C30: every call of a pagination loop comes to its end, whatever the
\* fetches return (next links that lead back to a page already seen, fetches
\* that fail every time): it returns, or the exception of a fetch ends it.
C30_CollectTerminates == <>(cPc \in {"returned", "raised"})

\* C30's case: a call that followed a page's link to itself, page after
\* page, and returned when page_count reached max_pages
C30_Witness ==
    /\ cPc = "returned"
    /\ cKind = "user_posts"
    /\ cWhy = "bounds"
    /\ page_count = max_pages /\ cFetches = max_pages
    /\ url = 1

(***************************************************************************)
(* Claims about _get_page_with_retry and the session (SpecFetch)           *)
(***************************************************************************)
Max(a, b) == IF a > b THEN a ELSE b

\* C3: _get_page_with_retry never raises, whatever the engine does, and makes
\* at most max_retries attempts.
C3_NeverRaises == fPc # "raised" /\ fOnce <= max_retries

\* C5: in the state right after any call of _rotate_session (from /rotate,
\* from _check_rotation_needed or from the retry path) request_count is 0.
C5_RotateResetsCount == justRotated => request_count[scraper] = 0

\* C6: counted from a fresh session and with no other rotation in between,
\* the first max_requests_before_rotation - 1 calls of _check_rotation_needed
\* rotate nothing, and the call that brings the count to the threshold has
\* rotated exactly once.
C6_OneRotationAtThreshold ==
    /\ noteCalls \in 0..(max_requests_before_rotation - 1) => autoRot = 0
    /\ noteCalls = max_requests_before_rotation => autoRot = 1

\* C6's case: the call that reached the threshold has rotated the session
C6_Witness ==
    /\ noteCalls = max_requests_before_rotation
    /\ autoRot = 1
    /\ fThreshRot = 1
    /\ request_count[scraper] = 0

\* C7: once _get_page has handed back a document that is not block-flagged,
\* the next step of the call is its return of that document: no sleep, no
\* rotation, no cookie clearing, no further _get_page, the session untouched.
C7_ReturnsImmediately ==
    [][(fPc = "got" /\ fSoup.present /\ ~is_blocked(fSoup))
        => /\ fPc' = "returned"
           /\ fSoup' = fSoup
           /\ UNCHANGED <<fSleeps, fRetryRot, fThreshRot, fClears, fOnce, sessionVars>>]_vars

\* C7's case: a call that returned the document of its second attempt
C7_Witness ==
    /\ fPc = "returned"
    /\ fSoup.present /\ ~is_blocked(fSoup)
    /\ fOnce = 2
    /\ fSleeps = 1

\* the third attempt of a call handed back a good document after two blocked
\* ones, and no threshold rotation happened in the call
BlockedTwiceThenGood ==
    /\ fCauses = <<"blocked", "blocked">>
    /\ fOnce = 3
    /\ fCause = "loaded" /\ ~is_blocked(fSoup)
    /\ fThreshRot = 0

\* C8: with max_retries = 3, Blocked on attempts 0 and 1 and Success on
\* attempt 2, the call returns the document and its retry path has rotated
\* exactly once.
C8_OneRotationBeforeSuccess ==
    BlockedTwiceThenGood
        => /\ fPc \in {"got", "returned"}
           /\ fRetryRot = 1
           /\ fClears = 1
           /\ fSleeps = 2

\* C8's case: that call has returned
C8_Witness == BlockedTwiceThenGood /\ fPc = "returned" /\ fRetryRot = 1

\* C10: a failed attempt costs the same whatever made it fail (a block, a
\* transport error, a timeout): when attempt a is dealt with, the call has made
\* a + 1 attempts, slept a + 1 times and rotated and cleared cookies a times
\* (after every failed attempt but attempt 0), for every sequence of causes.
C10_FailuresHandledAlike ==
    /\ fPc \in {"attempt", "exhausted"}
         => /\ Len(fCauses) = attempt
            /\ fOnce = attempt
            /\ fSleeps = attempt
            /\ fRetryRot = Max(attempt - 1, 0)
            /\ fClears = Max(attempt - 1, 0)
    /\ fPc = "rotate" => attempt > 0 /\ fSleeps = attempt + 1 /\ fRetryRot = attempt - 1

\* C10's case: a call whose three attempts failed in the three ways
C10_Witness ==
    /\ fPc = "exhausted"
    /\ fCauses = <<"blocked", "timeout", "error">>
    /\ fRetryRot = 2

\* C11 as stated: when the load wait of _get_page times out the fetch is not
\* failed; it goes on to the consent prompt and parses what the page holds.
C11_TimeoutGoesOn ==
    (fPc = "got" /\ fCause = "timeout") => (fConsent /\ fSoup.present)

\* C11 as amended: when the load wait of _get_page times out, _get_page
\* returns None without reaching the consent prompt or the parser; the
\* attempt counts as failed, and the only step the call takes next is its
\* backoff sleep (never a return of a document).
C11_TimeoutFailsAttempt ==
    [][(fPc = "got" /\ fCause = "timeout")
        => /\ ~fConsent
           /\ fSoup = NoneSoup
           /\ ~Usable(fSoup)
           /\ fPc' \in {"attempt", "rotate", "exhausted"}
           /\ fSleeps' = fSleeps + 1
           /\ fCauses' = Append(fCauses, "timeout")]_vars

\* C11's case: a call whose first attempt timed out and was retried
C11_Witness ==
    /\ fCauses = <<"timeout">>
    /\ fPc = "attempt"
    /\ fSleeps = 1
    /\ ~fConsent

\* a session creation of the call in progress has failed: in the threshold
\* rotation of an attempt, or in the retry path's rotation
InitFailed ==
    \/ fCause = "init_error" /\ fPc # "attempt"
    \/ \E i \in 1..Len(fCauses) : fCauses[i] = "init_error"
    \/ fPc = "raised"

\* C22: once a session creation has failed in a call of _get_page_with_retry,
\* the rest of the call calls _rotate_session (and so _setup_driver) no more.
C22_InitErrorNotRetried ==
    [][(InitFailed /\ fPc \in {"got", "attempt", "rotate", "clear"})
          => (fThreshRot' = fThreshRot /\ fRetryRot' = fRetryRot)]_vars

\* C23: a failure inside _simulate_human_behavior, _accept_reddit_cookies,
\* _clear_cookies or the driver.quit() of _rotate_session is swallowed: the
\* attempt ends as its navigation, wait and parsing end (a loaded page is
\* handed back), a rotation whose _setup_driver succeeds completes (live
\* session held, request_count 0), and the call goes on after _clear_cookies.
C23_BestEffortSwallowed ==
    /\ fPc = "got"
         => /\ fEngine.load # "none" => fCause = fEngine.load
            /\ fEngine.load = "loaded" => fSoup.present
    /\ ("quit" \in fEngine.best /\ fEngine.setup = "ok")
         => (request_count[scraper] = 0 /\ driver[scraper] \in live)
    /\ "clear" \in fEngine.best => fPc \in {"attempt", "exhausted"}

\* C23's case: an attempt whose threshold rotation could not quit the old
\* session, whose simulation and consent prompt failed, and which handed
\* back the page it loaded
C23_Witness ==
    /\ fPc = "got"
    /\ fEngine.best = {"quit", "simulate", "consent"}
    /\ fEngine.setup = "ok"
    /\ fCause = "loaded" /\ Usable(fSoup)
    /\ request_count[scraper] = 0

\* C24: the wait slept after failed attempt a (0 <= a < max_retries) is
\* 2^a times a value between 3 and 6 seconds, and the waits of one call never
\* decrease from one attempt to the next, whatever values are drawn.
C24_BackoffNonDecreasing ==
    /\ Len(wWaits) = wAttempt /\ wAttempt <= max_retries
    /\ \A i \in 1..Len(wWaits) :
          /\ 2 ^ (i - 1) * 3 * UniformSteps <= wWaits[i]
          /\ wWaits[i] <= 2 ^ (i - 1) * 6 * UniformSteps
    /\ \A i \in 1..(Len(wWaits) - 1) : wWaits[i] <= wWaits[i + 1]

\* C24's case: three sleeps, the first drawn at the top of the range and
\* the second at the bottom, so that the two waits are equal
C24_Witness ==
    /\ wAttempt = max_retries
    /\ wWaits[1] = 6 * UniformSteps
    /\ wWaits[2] = wWaits[1]
    /\ wWaits[3] > wWaits[2]

\* C26: between the operations on the session (a _get_page, a
\* _rotate_session), request_count is at least 0 and below
\* max_requests_before_rotation, whatever the engine does.
C26_CountBelowThreshold ==
    /\ 0 <= request_count[scraper]
    /\ request_count[scraper] < max_requests_before_rotation

\* C27: between the operations on the session, the handle the scraper holds
\* is None or names a session the engine still runs, also after a
\* _rotate_session that failed once it had quit the old session.
C27_NoClosedHandleHeld ==
    driver[scraper] # 0 => driver[scraper] \in live

\* C29: a call of _get_page_with_retry whose max_retries attempts have all
\* failed has, when it ends, slept max_retries times and rotated the session
\* and cleared the cookies max_retries - 1 times (after every failed attempt
\* but attempt 0, the last one included).
C29_SleepsAndRotationsWhenExhausted ==
    (fPc \in {"exhausted", "raised"} /\ Len(fCauses) = max_retries)
        => /\ fOnce = max_retries
           /\ fSleeps = max_retries
           /\ fRetryRot = max_retries - 1
           /\ fClears = max_retries - 1

(***************************************************************************)
(* Claims about the route handlers, one request at a time (SpecServe)      *)
(***************************************************************************)

\* a /scrape request has been answered
Answered == hPc = "idle" /\ hRoute = "scrape" /\ hStatus # 0

C16_NotFoundOnlyWhenAbsent ==
    (Answered /\ hType \in {"user", "community"} /\ hTrace # <<>>)
        => /\ hStatus = 404 <=> hCause = "absent"
           /\ hCause \in {"raised", "no_page", "parse_error"} => hStatus = 500

\* C17: a /scrape request during which a record was collected is answered
\* 200 with the records collected.
C17_CollectedRecordsReturned ==
    (Answered /\ hGot > 0) => (hStatus = 200 /\ hCarried = hGot)

\* C18: a /scrape request with an invalid type, or whose required field is
\* missing or blank, is answered 400 bad_request, and nothing is fetched for it.
C18_BadRequestBeforeFetch ==
    (/\ hRoute = "scrape"
     /\ \/ hType = "other"
        \/ hType \in {"user", "community", "search"} /\ hField \in {"absent", "blank"})
        => /\ hFetches = 0
           /\ Answered => (hStatus = 400 /\ hError = "bad_request")

\* C19: in a user request the steps that fetch come in the order profile,
\* posts, comments, and when the profile step reports an error (not_found
\* or parse_error) the request is answered after the profile fetch alone.
C19_ProfileErrorShortCircuits ==
    (hRoute = "scrape" /\ hType = "user")
        => /\ IsPrefix(hTrace, <<"profile", "posts", "comments">>)
           /\ hCause \in {"no_page", "absent", "parse_error"}
                => (hTrace = <<"profile">> /\ hFetches = 1 /\ hPc = "idle")
           /\ (Answered /\ hStatus = 200) => hTrace = <<"profile", "posts", "comments">>

\* C19's case: a user request whose profile step reported parse_error
C19_Witness ==
    /\ Answered /\ hType = "user"
    /\ hCause = "parse_error" /\ hStatus = 500
    /\ hTrace = <<"profile">>

(***************************************************************************)
(* Claims about the session under request threads (SpecSession)            *)
(***************************************************************************)

\* C4: in every reachable state at most one browsing session is live.
C4_AtMostOneLiveSession == Cardinality(live) <= 1


\* C15: get_scraper builds a scraper (and its session) only when none
\* exists: at the step that builds one the global is None and no other
\* call of get_scraper has built one that it is about to assign.
C15_LazySingleton ==
    [][\A t \in Threads :
          (tPc[t] = "gs_new" /\ tPc'[t] = "gs_assign")
              => /\ scraper = 0
                 /\ \A u \in Threads \ {t} : tObj[u] = 0]_vars

\* thread t is inside _rotate_session
InRotation(t) == tPc[t] \in {"rot_quit", "rot_setup", "rot_reset"}

\* C21: with two request threads, no two calls of _rotate_session on the
\* same object are in progress together, and no thread navigates or reads the
\* page through a handle whose session another thread's rotation or close
\* has just quit.
C21_NoOverlapNoTornDownHandle ==
    [][\A t \in Threads : \A u \in Threads \ {t} :
          /\ ~(InRotation(t)' /\ InRotation(u)' /\ tRef'[t] = tRef'[u])
          /\ (tPc[t] \in {"nav", "read"} /\ tPc'[t] # tPc[t])
                => ~(/\ driver[tRef[t]] \notin live
                     /\ \/ tPc[u] = "rot_setup" /\ tRef[u] = tRef[t]
                        \/ tPc[u] = "cl_assign" /\ scraper = tRef[t])]_vars

=============================================================================
